---- MODULE Spec2Model ----
(***************************************************************************)
(* Model of the vmwareguest-exporter Collector (main.go): the static       *)
(* metric table, the unit helpers, and Collect / Describe as run by the    *)
(* goroutines of the Prometheus registry.  Collect is split at its shared  *)
(* memory accesses (c.errors++, c.events++ are load / store pairs) so that *)
(* both the serialized and the concurrent schedule can be examined.        *)
(***************************************************************************)
EXTENDS Integers, Sequences, FiniteSets, TLC

\* ---------------------------------------------------------------- bounds
MaxScrapes == 2      \* Collect calls started in one process lifetime
MaxFailures == 2     \* getter failures in one process lifetime
MaxDescribes == 2    \* Describe calls in one process lifetime

\* goroutines of the registry that may call into the Collector
Procs == {"g1", "g2"}

\* raw readings the guest library can hand back after a refresh
RawValues == {0, 3, 2048}

\* table entries whose getter the guest library may fail: the first entry,
\* HostMemUsed, a millisecond counter, a 32-bit unitless one and the last
Failable == {"GetHostMemUnmapped", "GetHostMemUsed", "GetCPUStolen",
             "GetHostNumCPUCores", "GetCPUReservation"}

\* the guest library as the serialized scrapes see it, and a narrower one
\* for the schedules in which Collect calls overlap
GuestLib == [raws |-> RawValues, failable |-> Failable]
GuestLibConc == [raws |-> {2048}, failable |-> {"GetHostMemUsed"}]

NoSession == "nil"
Session == "session"

\* ------------------------------------------------------- float64 values
\* A float64 is kept exactly as m * 2^e2 * 5^e5 with m coprime to 10
\* (or m = 0), so that 1024*1024 and 0.001 are both representable and
\* products never leave the range of the checker's integers.
RECURSIVE Norm(_, _, _)
Norm(m, e2, e5) ==
    IF m = 0 THEN [m |-> 0, e2 |-> 0, e5 |-> 0]
    ELSE IF m % 2 = 0 THEN Norm(m \div 2, e2 + 1, e5)
    ELSE IF m % 5 = 0 THEN Norm(m \div 5, e2, e5 + 1)
    ELSE [m |-> m, e2 |-> e2, e5 |-> e5]

\* float64(n) for an unsigned integer n
ToF64(n) == Norm(n, 0, 0)

\* a * b on float64
F64Mul(a, b) == Norm(a.m * b.m, a.e2 + b.e2, a.e5 + b.e5)

\* the integer a float64 holds (integral values only)
F64Int(v) == v.m * (2 ^ v.e2) * (5 ^ v.e5)

\* the literal 0.001
Milli == [m |-> 1, e2 |-> -3, e5 |-> -3]

\* --------------------------------------------------------- metric table
metric_name_pfx == "vmwareguest_"

getu32(fn) == [width |-> "u32", fn |-> fn]
getu64(fn) == [width |-> "u64", fn |-> fn]

\* variant: megabytes scaled by 1024 only
mbmetricKilo(getter, name) ==
    [getter |-> getter, name |-> name, multiplier |-> ToF64(1024),
     unit |-> "bytes", ValueType |-> "GaugeValue"]

mbmetric(getter, name) ==
    [getter |-> getter, name |-> name, multiplier |-> ToF64(1024 * 1024),
     unit |-> "bytes", ValueType |-> "GaugeValue"]

mzmetric(getter, name) ==
    [getter |-> getter, name |-> name, multiplier |-> ToF64(1024 * 1024),
     unit |-> "hertz", ValueType |-> "GaugeValue"]

unmetric(getter, name) ==
    [getter |-> getter, name |-> name, multiplier |-> ToF64(1),
     unit |-> "", ValueType |-> "GaugeValue"]

msmetric(getter, name) ==
    [getter |-> getter, name |-> name, multiplier |-> Milli,
     unit |-> "seconds", ValueType |-> "CounterValue"]

prometheus_name(gm) ==
    IF gm.unit # "" THEN <<metric_name_pfx, gm.name, "_", gm.unit>>
    ELSE <<metric_name_pfx, gm.name>>

metrics == <<
    mbmetric(getu64("GetHostMemUnmapped"), "HostMemUnmapped"),
    mbmetric(getu64("GetHostMemMapped"), "HostMemMapped"),
    mbmetric(getu64("GetHostMemKernOvhd"), "HostMemKernOvhd"),
    mbmetric(getu64("GetHostMemPhysFree"), "HostMemPhysFree"),
    mbmetric(getu64("GetHostMemPhys"), "HostMemPhys"),
    mbmetric(getu64("GetHostMemUsed"), "HostMemUsed"),
    mbmetric(getu64("GetHostMemShared"), "HostMemShared"),
    mbmetric(getu64("GetHostMemSwapped"), "HostMemSwapped"),
    msmetric(getu64("GetHostCPUUsed"), "HostCPUUsed"),
    msmetric(getu64("GetCPUUsed"), "CPUUsed"),
    mbmetric(getu64("GetMemTargetSize"), "MemTargetSize"),
    msmetric(getu64("GetCPUStolen"), "CPUStolen"),
    msmetric(getu64("GetTimeElapsed"), "TimeElapsed"),
    unmetric(getu32("GetHostNumCPUCores"), "HostNumCPUCores"),
    mbmetric(getu32("GetMemUsed"), "MemUsed"),
    mbmetric(getu32("GetMemSharedSaved"), "MemSharedSaved"),
    mbmetric(getu32("GetMemShared"), "MemShared"),
    mbmetric(getu32("GetMemSwapped"), "MemSwapped"),
    mbmetric(getu32("GetMemBallooned"), "MemBallooned"),
    mbmetric(getu32("GetMemOverhead"), "MemOverhead"),
    mbmetric(getu32("GetMemActive"), "MemActive"),
    mbmetric(getu32("GetMemMapped"), "MemMapped"),
    unmetric(getu32("GetMemShares"), "MemShares"),
    mbmetric(getu32("GetMemLimit"), "MemLimit"),
    mbmetric(getu32("GetMemReservation"), "MemReservation"),
    mzmetric(getu32("GetHostProcessorSpeed"), "HostProcessorSpeed"),
    unmetric(getu32("GetCPUShares"), "CPUShares"),
    mzmetric(getu32("GetCPULimit"), "CPULimit"),
    mzmetric(getu32("GetCPUReservation"), "CPUReservation")>>

NumMetrics == Len(metrics)

\* init(): one Desc per table entry, in table order
descs == [k \in 1..NumMetrics |-> prometheus_name(metrics[k])]

isGuestDesc == <<metric_name_pfx, "isguest">>
collecterrsDesc == <<metric_name_pfx, "collecterrors">>
eventsDesc == <<metric_name_pfx, "events">>

\* getu32.Get / getu64.Get: the raw reading converted to float64
getterGet(g, raw, ok) ==
    IF ok THEN [val |-> ToF64(raw), err |-> FALSE]
    ELSE [val |-> ToF64(0), err |-> TRUE]

\* metric.Get
metricGet(m, raw, ok) ==
    LET r == getterGet(m.getter, raw, ok)
    IN  IF r.err THEN [val |-> ToF64(0), err |-> TRUE]
        ELSE [val |-> F64Mul(r.val, m.multiplier), err |-> FALSE]

\* prometheus.MustNewConstMetric
MustNewConstMetric(desc, valueType, value) ==
    [desc |-> desc, ValueType |-> valueType, value |-> value]

\* ---------------------------------------------------------------- state
VARIABLES
    lib,          \* what the guest library may answer (fixed at start)
    session,      \* Collector.session: NoSession or Session
    errors,       \* Collector.errors
    events,       \* Collector.events
    info,         \* the guest library's snapshot, replaced by RefreshInfo
    exitCode,     \* <<>> while running, <<status>> once os.Exit was called
    pc,           \* per goroutine: position inside Collect
    idx,          \* per goroutine: loop index i of "for i, m := range metrics"
    tmp,          \* per goroutine: register holding the counter being incremented
    ch,           \* per goroutine: samples sent on this call's channel, in order
    calls,        \* per goroutine: calls made into the session by this Collect
    descOut,      \* identifiers sent by the latest Describe
    described,    \* number of Describe calls so far
    errs0,        \* per goroutine: c.errors when this Collect was entered
    evs0,         \* per goroutine: c.events when this Collect was entered
    failed,       \* per goroutine: table indices whose getter failed in this Collect
    outcome,      \* per goroutine: what this Collect's RefreshInfo reported
    overlap,      \* some Collect was entered while another was in flight
    totalFails,   \* getter failures over the process lifetime
    totalEvents,  \* "state changed" refreshes over the process lifetime
    scrapes,      \* Collect calls started over the process lifetime
    prevErrs,     \* errors value emitted by the latest completed scrape
    prevEvs       \* events value emitted by the latest completed scrape

shared == <<lib, session, errors, events, info, exitCode>>

exited == exitCode # <<>>
local == <<pc, idx, tmp, ch, calls>>
desc == <<descOut, described>>
ghost == <<errs0, evs0, failed, outcome, overlap, totalFails, totalEvents,
           scrapes, prevErrs, prevEvs>>
vars == <<shared, local, desc, ghost>>

\* NewCollector: the session is kept when NewSession succeeded, nil otherwise;
\* the counters are zero.
NewCollector(s) ==
    /\ session = s
    /\ errors = 0
    /\ events = 0

Start(l) ==
    /\ lib = l
    /\ \E s \in {NoSession, Session} : NewCollector(s)
    /\ info = 0
    /\ exitCode = <<>>
    /\ pc = [t \in Procs |-> "idle"]
    /\ idx = [t \in Procs |-> 0]
    /\ tmp = [t \in Procs |-> 0]
    /\ ch = [t \in Procs |-> <<>>]
    /\ calls = [t \in Procs |-> <<>>]
    /\ descOut = <<>>
    /\ described = 0
    /\ errs0 = [t \in Procs |-> 0]
    /\ evs0 = [t \in Procs |-> 0]
    /\ failed = [t \in Procs |-> {}]
    /\ outcome = [t \in Procs |-> "none"]
    /\ overlap = FALSE
    /\ totalFails = 0
    /\ totalEvents = 0
    /\ scrapes = 0
    /\ prevErrs = 0
    /\ prevEvs = 0

Init == Start(GuestLib)

InitConc == Start(GuestLibConc)

\* ch <- m
Send(c, m) == Append(c, m)

\* position reached once the loop body for index k is over
AfterIndex(k) == IF k + 1 > NumMetrics THEN "emitev" ELSE "loop"

\* ------------------------------------------------------------- Collect
\* variant: the early return of lines 100-102 is missing
CollectIsGuestNoReturn(t) ==
    /\ ~exited
    /\ pc[t] = "idle"
    /\ scrapes < MaxScrapes
    /\ LET isguest == IF session # NoSession THEN 1 ELSE 0
       IN  ch' = [ch EXCEPT ![t] =
                    Send(<<>>, MustNewConstMetric(isGuestDesc, "GaugeValue",
                                                  ToF64(isguest)))]
    /\ pc' = [pc EXCEPT ![t] = "emitev"]
    /\ calls' = [calls EXCEPT ![t] = <<>>]
    /\ errs0' = [errs0 EXCEPT ![t] = errors]
    /\ evs0' = [evs0 EXCEPT ![t] = events]
    /\ failed' = [failed EXCEPT ![t] = {}]
    /\ outcome' = [outcome EXCEPT ![t] = "none"]
    /\ overlap' = (overlap \/ \E u \in Procs \ {t} : pc[u] \notin {"idle", "done"})
    /\ scrapes' = scrapes + 1
    /\ UNCHANGED <<shared, idx, tmp, desc, totalFails, totalEvents,
                   prevErrs, prevEvs>>

\* variant: the counters are cleared on entry
CollectIsGuestReset(t) ==
    /\ ~exited
    /\ pc[t] = "idle"
    /\ scrapes < MaxScrapes
    /\ LET isguest == IF session # NoSession THEN 1 ELSE 0
       IN  ch' = [ch EXCEPT ![t] =
                    Send(<<>>, MustNewConstMetric(isGuestDesc, "GaugeValue",
                                                  ToF64(isguest)))]
    /\ pc' = [pc EXCEPT ![t] = IF session = NoSession THEN "done" ELSE "refresh"]
    /\ calls' = [calls EXCEPT ![t] = <<>>]
    /\ errs0' = [errs0 EXCEPT ![t] = errors]
    /\ evs0' = [evs0 EXCEPT ![t] = events]
    /\ failed' = [failed EXCEPT ![t] = {}]
    /\ outcome' = [outcome EXCEPT ![t] = "none"]
    /\ overlap' = (overlap \/ \E u \in Procs \ {t} : pc[u] \notin {"idle", "done"})
    /\ scrapes' = scrapes + 1
    /\ errors' = 0
    /\ events' = 0
    /\ UNCHANGED <<lib, session, info, exitCode, idx, tmp, desc, totalFails,
                   totalEvents, prevErrs, prevEvs>>

\* lines 92-102: emit the isguest gauge, return at once without a session
CollectIsGuest(t) ==
    /\ ~exited
    /\ pc[t] = "idle"
    /\ scrapes < MaxScrapes
    /\ LET isguest == IF session # NoSession THEN 1 ELSE 0
       IN  ch' = [ch EXCEPT ![t] =
                    Send(<<>>, MustNewConstMetric(isGuestDesc, "GaugeValue",
                                                  ToF64(isguest)))]
    /\ pc' = [pc EXCEPT ![t] = IF session = NoSession THEN "done" ELSE "refresh"]
    /\ calls' = [calls EXCEPT ![t] = <<>>]
    /\ errs0' = [errs0 EXCEPT ![t] = errors]
    /\ evs0' = [evs0 EXCEPT ![t] = events]
    /\ failed' = [failed EXCEPT ![t] = {}]
    /\ outcome' = [outcome EXCEPT ![t] = "none"]
    /\ overlap' = (overlap \/ \E u \in Procs \ {t} : pc[u] \notin {"idle", "done"})
    /\ scrapes' = scrapes + 1
    /\ UNCHANGED <<shared, idx, tmp, desc, totalFails, totalEvents,
                   prevErrs, prevEvs>>

\* variant: a hard error is logged and the scrape goes on
RefreshInfoDegrade(t) ==
    /\ ~exited
    /\ pc[t] = "refresh"
    /\ calls' = [calls EXCEPT ![t] =
                    Append(@, [call |-> "RefreshInfo", at |-> Len(ch[t])])]
    /\ \E res \in {"nochange", "event", "error"}, v \in lib.raws :
          /\ outcome' = [outcome EXCEPT ![t] = res]
          /\ \/ /\ res = "error"
                /\ pc' = [pc EXCEPT ![t] = "loop"]
                /\ idx' = [idx EXCEPT ![t] = 1]
                /\ UNCHANGED <<info, exitCode, totalEvents>>
             \/ /\ res = "event"
                /\ info' = v
                /\ pc' = [pc EXCEPT ![t] = "evload"]
                /\ totalEvents' = totalEvents + 1
                /\ UNCHANGED <<exitCode, idx>>
             \/ /\ res = "nochange"
                /\ info' = v
                /\ pc' = [pc EXCEPT ![t] = "loop"]
                /\ idx' = [idx EXCEPT ![t] = 1]
                /\ UNCHANGED <<exitCode, totalEvents>>
    /\ UNCHANGED <<lib, session, errors, events, tmp, ch, desc, errs0, evs0,
                   failed, overlap, totalFails, scrapes, prevErrs, prevEvs>>

\* lines 104-111: RefreshInfo; a hard error ends the process, "state
\* changed" leads to c.events++
RefreshInfo(t) ==
    /\ ~exited
    /\ pc[t] = "refresh"
    /\ calls' = [calls EXCEPT ![t] =
                    Append(@, [call |-> "RefreshInfo", at |-> Len(ch[t])])]
    /\ \E res \in {"nochange", "event", "error"}, v \in lib.raws :
          /\ outcome' = [outcome EXCEPT ![t] = res]
          /\ \/ /\ res = "error"
                /\ exitCode' = <<1>>
                /\ pc' = [pc EXCEPT ![t] = "exited"]
                /\ UNCHANGED <<info, idx, totalEvents>>
             \/ /\ res = "event"
                /\ info' = v
                /\ pc' = [pc EXCEPT ![t] = "evload"]
                /\ totalEvents' = totalEvents + 1
                /\ UNCHANGED <<exitCode, idx>>
             \/ /\ res = "nochange"
                /\ info' = v
                /\ pc' = [pc EXCEPT ![t] = "loop"]
                /\ idx' = [idx EXCEPT ![t] = 1]
                /\ UNCHANGED <<exitCode, totalEvents>>
    /\ UNCHANGED <<lib, session, errors, events, tmp, ch, desc, errs0, evs0,
                   failed, overlap, totalFails, scrapes, prevErrs, prevEvs>>

\* variant: the load reads c.errors
EventsLoadErrors(t) ==
    /\ ~exited
    /\ pc[t] = "evload"
    /\ tmp' = [tmp EXCEPT ![t] = errors]
    /\ pc' = [pc EXCEPT ![t] = "evstore"]
    /\ UNCHANGED <<shared, idx, ch, calls, desc, ghost>>

\* line 110, c.events++ : the load
EventsLoad(t) ==
    /\ ~exited
    /\ pc[t] = "evload"
    /\ tmp' = [tmp EXCEPT ![t] = events]
    /\ pc' = [pc EXCEPT ![t] = "evstore"]
    /\ UNCHANGED <<shared, idx, ch, calls, desc, ghost>>

\* variant: the store writes the value back unincremented
EventsStoreSame(t) ==
    /\ ~exited
    /\ pc[t] = "evstore"
    /\ events' = tmp[t]
    /\ pc' = [pc EXCEPT ![t] = "loop"]
    /\ idx' = [idx EXCEPT ![t] = 1]
    /\ UNCHANGED <<lib, session, errors, info, exitCode, tmp, ch, calls, desc, ghost>>

\* line 110, c.events++ : the store
EventsStore(t) ==
    /\ ~exited
    /\ pc[t] = "evstore"
    /\ events' = tmp[t] + 1
    /\ pc' = [pc EXCEPT ![t] = "loop"]
    /\ idx' = [idx EXCEPT ![t] = 1]
    /\ UNCHANGED <<lib, session, errors, info, exitCode, tmp, ch, calls, desc, ghost>>

\* variant: the table is walked from its last entry
GetMetricRev(t) ==
    /\ ~exited
    /\ pc[t] = "loop"
    /\ idx[t] <= NumMetrics
    /\ calls' = [calls EXCEPT ![t] =
                    Append(@, [call |-> metrics[NumMetrics + 1 - idx[t]].getter.fn,
                               at |-> Len(ch[t])])]
    /\ \E ok \in BOOLEAN :
          /\ ok \/ (totalFails < MaxFailures
                   /\ metrics[NumMetrics + 1 - idx[t]].getter.fn \in lib.failable)
          /\ LET m == metrics[NumMetrics + 1 - idx[t]]
                 r == metricGet(m, info, ok)
             IN  IF r.err
                 THEN /\ pc' = [pc EXCEPT ![t] = "errload"]
                      /\ failed' = [failed EXCEPT ![t] = @ \cup {NumMetrics + 1 - idx[t]}]
                      /\ totalFails' = totalFails + 1
                      /\ UNCHANGED <<ch, idx>>
                 ELSE /\ ch' = [ch EXCEPT ![t] =
                                  Send(@, MustNewConstMetric(descs[NumMetrics + 1 - idx[t]],
                                                             m.ValueType, r.val))]
                      /\ idx' = [idx EXCEPT ![t] = @ + 1]
                      /\ pc' = [pc EXCEPT ![t] = AfterIndex(idx[t])]
                      /\ UNCHANGED <<failed, totalFails>>
    /\ UNCHANGED <<shared, tmp, desc, errs0, evs0, outcome, overlap,
                   totalEvents, scrapes, prevErrs, prevEvs>>

\* variant: a failing getter still sends the zero it returned
GetMetricStale(t) ==
    /\ ~exited
    /\ pc[t] = "loop"
    /\ idx[t] <= NumMetrics
    /\ calls' = [calls EXCEPT ![t] =
                    Append(@, [call |-> metrics[idx[t]].getter.fn,
                               at |-> Len(ch[t])])]
    /\ \E ok \in BOOLEAN :
          /\ ok \/ (totalFails < MaxFailures
                   /\ metrics[idx[t]].getter.fn \in lib.failable)
          /\ LET m == metrics[idx[t]]
                 r == metricGet(m, info, ok)
             IN  IF r.err
                 THEN /\ pc' = [pc EXCEPT ![t] = "errload"]
                      /\ failed' = [failed EXCEPT ![t] = @ \cup {idx[t]}]
                      /\ totalFails' = totalFails + 1
                      /\ ch' = [ch EXCEPT ![t] =
                                  Send(@, MustNewConstMetric(descs[idx[t]],
                                                             m.ValueType, r.val))]
                      /\ UNCHANGED idx
                 ELSE /\ ch' = [ch EXCEPT ![t] =
                                  Send(@, MustNewConstMetric(descs[idx[t]],
                                                             m.ValueType, r.val))]
                      /\ idx' = [idx EXCEPT ![t] = @ + 1]
                      /\ pc' = [pc EXCEPT ![t] = AfterIndex(idx[t])]
                      /\ UNCHANGED <<failed, totalFails>>
    /\ UNCHANGED <<shared, tmp, desc, errs0, evs0, outcome, overlap,
                   totalEvents, scrapes, prevErrs, prevEvs>>

\* lines 113-120: one iteration of the loop over the table
GetMetric(t) ==
    /\ ~exited
    /\ pc[t] = "loop"
    /\ idx[t] <= NumMetrics
    /\ calls' = [calls EXCEPT ![t] =
                    Append(@, [call |-> metrics[idx[t]].getter.fn,
                               at |-> Len(ch[t])])]
    /\ \E ok \in BOOLEAN :
          /\ ok \/ (totalFails < MaxFailures
                   /\ metrics[idx[t]].getter.fn \in lib.failable)
          /\ LET m == metrics[idx[t]]
                 r == metricGet(m, info, ok)
             IN  IF r.err
                 THEN /\ pc' = [pc EXCEPT ![t] = "errload"]
                      /\ failed' = [failed EXCEPT ![t] = @ \cup {idx[t]}]
                      /\ totalFails' = totalFails + 1
                      /\ UNCHANGED <<ch, idx>>
                 ELSE /\ ch' = [ch EXCEPT ![t] =
                                  Send(@, MustNewConstMetric(descs[idx[t]],
                                                             m.ValueType, r.val))]
                      /\ idx' = [idx EXCEPT ![t] = @ + 1]
                      /\ pc' = [pc EXCEPT ![t] = AfterIndex(idx[t])]
                      /\ UNCHANGED <<failed, totalFails>>
    /\ UNCHANGED <<shared, tmp, desc, errs0, evs0, outcome, overlap,
                   totalEvents, scrapes, prevErrs, prevEvs>>

\* line 117, c.errors++ : the load
ErrorsLoad(t) ==
    /\ ~exited
    /\ pc[t] = "errload"
    /\ tmp' = [tmp EXCEPT ![t] = errors]
    /\ pc' = [pc EXCEPT ![t] = "errstore"]
    /\ UNCHANGED <<shared, idx, ch, calls, desc, ghost>>

\* line 117, c.errors++ : the store, then on to the next table entry
ErrorsStore(t) ==
    /\ ~exited
    /\ pc[t] = "errstore"
    /\ errors' = tmp[t] + 1
    /\ idx' = [idx EXCEPT ![t] = @ + 1]
    /\ pc' = [pc EXCEPT ![t] = AfterIndex(idx[t])]
    /\ UNCHANGED <<lib, session, events, info, exitCode, tmp, ch, calls, desc, ghost>>

\* lines 123-125: emit the events counter
EmitEvents(t) ==
    /\ ~exited
    /\ pc[t] = "emitev"
    /\ ch' = [ch EXCEPT ![t] =
                Send(@, MustNewConstMetric(eventsDesc, "CounterValue",
                                           ToF64(events)))]
    /\ pc' = [pc EXCEPT ![t] = "emiterr"]
    /\ UNCHANGED <<shared, idx, tmp, calls, desc, ghost>>

\* variant: the errors of this scrape only are emitted
EmitErrorsPerScrape(t) ==
    /\ ~exited
    /\ pc[t] = "emiterr"
    /\ ch' = [ch EXCEPT ![t] =
                Send(@, MustNewConstMetric(collecterrsDesc, "CounterValue",
                                           ToF64(errors - errs0[t])))]
    /\ pc' = [pc EXCEPT ![t] = "done"]
    /\ UNCHANGED <<shared, idx, tmp, calls, desc, ghost>>

\* lines 126-128: emit the errors counter; Collect is over
EmitErrors(t) ==
    /\ ~exited
    /\ pc[t] = "emiterr"
    /\ ch' = [ch EXCEPT ![t] =
                Send(@, MustNewConstMetric(collecterrsDesc, "CounterValue",
                                           ToF64(errors)))]
    /\ pc' = [pc EXCEPT ![t] = "done"]
    /\ UNCHANGED <<shared, idx, tmp, calls, desc, ghost>>

\* Collect has returned (line 101 or 129): the caller takes the samples
Return(t) ==
    /\ ~exited
    /\ pc[t] = "done"
    /\ pc' = [pc EXCEPT ![t] = "idle"]
    /\ IF session # NoSession
       THEN /\ prevEvs' = F64Int(ch[t][Len(ch[t]) - 1].value)
            /\ prevErrs' = F64Int(ch[t][Len(ch[t])].value)
       ELSE UNCHANGED <<prevErrs, prevEvs>>
    /\ ch' = [ch EXCEPT ![t] = <<>>]
    /\ calls' = [calls EXCEPT ![t] = <<>>]
    /\ idx' = [idx EXCEPT ![t] = 0]
    /\ tmp' = [tmp EXCEPT ![t] = 0]
    /\ errs0' = [errs0 EXCEPT ![t] = 0]
    /\ evs0' = [evs0 EXCEPT ![t] = 0]
    /\ failed' = [failed EXCEPT ![t] = {}]
    /\ outcome' = [outcome EXCEPT ![t] = "none"]
    /\ UNCHANGED <<shared, desc, overlap, totalFails, totalEvents, scrapes>>

\* ------------------------------------------------------------ Describe
\* variant: the session check of line 134 is missing
DescribeNoCheck ==
    /\ ~exited
    /\ described < MaxDescribes
    /\ described' = described + 1
    /\ descOut' = <<isGuestDesc>> \o descs \o <<eventsDesc, collecterrsDesc>>
    /\ UNCHANGED <<shared, local, ghost>>

\* lines 132-143
Describe ==
    /\ ~exited
    /\ described < MaxDescribes
    /\ described' = described + 1
    /\ descOut' = IF session = NoSession
                  THEN <<isGuestDesc>>
                  ELSE <<isGuestDesc>> \o descs \o <<eventsDesc, collecterrsDesc>>
    /\ UNCHANGED <<shared, local, ghost>>

\* ------------------------------------------------------ specifications
\* one scrape in flight at a time: Collect is entered only while no other
\* goroutine is inside it
SerialCollect(t) ==
    /\ \A u \in Procs \ {t} : pc[u] = "idle"
    /\ CollectIsGuest(t)

Step(t) ==
    \/ RefreshInfo(t)
    \/ EventsLoad(t)
    \/ EventsStore(t)
    \/ GetMetric(t)
    \/ ErrorsLoad(t)
    \/ ErrorsStore(t)
    \/ EmitEvents(t)
    \/ EmitErrors(t)
    \/ Return(t)

Next ==
    \/ \E t \in Procs : SerialCollect(t)
    \/ \E t \in Procs : Step(t)
    \/ Describe

Spec == Init /\ [][Next]_vars

\* Collect entered by several goroutines at once
NextConc ==
    \/ \E t \in Procs : CollectIsGuest(t)
    \/ \E t \in Procs : Step(t)

SpecConc == InitConc /\ [][NextConc]_vars

\* -------------------------------------------------------------- claims
Zero == [m |-> 0, e2 |-> 0, e5 |-> 0]
One == [m |-> 1, e2 |-> 0, e5 |-> 0]

\* descriptors of the table entries whose index is in J
DescsOf(J) == {descs[j] : j \in J}

\* descriptors of the samples sent so far by goroutine t
Sent(t) == {ch[t][k].desc : k \in 1..Len(ch[t])}

\* C1: without a session every Collect emits exactly one sample, the
\* isguest gauge with value 0, calls nothing on the session, and leaves
\* the errors and events counters as they were.
C1_NoSessionOnlyIsGuest ==
    \A t \in Procs :
        (session = NoSession /\ pc[t] # "idle") =>
            /\ pc[t] = "done"
            /\ ch[t] = <<[desc |-> isGuestDesc, ValueType |-> "GaugeValue",
                          value |-> Zero]>>
            /\ calls[t] = <<>>
            /\ errors = errs0[t] /\ events = evs0[t]
            /\ errors = 0 /\ events = 0

C1_Witness ==
    \E t \in Procs : session = NoSession /\ pc[t] = "done" /\ scrapes = 2

\* C2: with a session and a refresh that did not hard-fail, a finished
\* scrape in which k getters failed holds isguest = 1, the samples of
\* exactly the table entries that did not fail, then events and errors,
\* NumMetrics + 3 - k samples in all, and c.errors has grown by exactly k.
C2_FailuresCountedNotEmitted ==
    \A t \in Procs :
        (session = Session /\ pc[t] = "done") =>
            LET n == Len(ch[t])
                k == Cardinality(failed[t])
            IN  /\ n = NumMetrics + 3 - k
                /\ ch[t][1] = [desc |-> isGuestDesc, ValueType |-> "GaugeValue",
                               value |-> One]
                /\ {ch[t][p].desc : p \in 2..(n - 2)}
                       = DescsOf((1..NumMetrics) \ failed[t])
                /\ Sent(t) \cap DescsOf(failed[t]) = {}
                /\ ch[t][n - 1].desc = eventsDesc
                /\ ch[t][n].desc = collecterrsDesc
                /\ errors = errs0[t] + k

C2_Witness ==
    \E t \in Procs :
        /\ session = Session /\ pc[t] = "done"
        /\ failed[t] = {6}
        /\ Len(ch[t]) = 31
        /\ errors = errs0[t] + 1

\* C3: a hard error of RefreshInfo ends the process with status 1 at once:
\* the Collect that saw it has sent only the isguest gauge, has called no
\* getter, has not touched the counters, and no step is ever taken again.
C3_RefreshErrorIsFatal ==
    [][ /\ ~exited
        /\ \A t \in Procs :
          outcome'[t] = "error" =>
              /\ outcome[t] # "error"
              /\ exitCode' = <<1>>
              /\ ch'[t] = <<[desc |-> isGuestDesc, ValueType |-> "GaugeValue",
                             value |-> One]>>
              /\ calls'[t] = <<[call |-> "RefreshInfo", at |-> 1]>>
              /\ errors' = errs0'[t] /\ events' = evs0'[t]
              /\ errors' = errors /\ events' = events ]_vars

C3_Witness ==
    \E t \in Procs : outcome[t] = "error" /\ exited /\ scrapes = 2

\* C4: the refresh step of a Collect (RefreshInfo and the c.events++ that
\* may follow it) raises c.events by exactly 1 when "state changed" was
\* reported and leaves it alone when "no change" was; c.errors is not
\* touched by that step, and the events total of the finished scrape
\* differs from the one at entry by that same amount.
C4_EventCountedOnce ==
    [][ \A t \in Procs :
          LET bump == IF outcome'[t] = "event" THEN 1 ELSE 0
          IN  /\ (pc[t] \in {"refresh", "evload", "evstore"} /\ pc'[t] # pc[t])
                    => /\ errors' = errors
                       /\ pc'[t] = "loop" => events' = evs0[t] + bump
              /\ (pc[t] = "emiterr" /\ pc'[t] = "done")
                    => events' = evs0[t] + bump ]_vars

C4_Witness ==
    \E t \in Procs :
        /\ pc[t] = "loop" /\ idx[t] = 1
        /\ outcome[t] = "event"
        /\ evs0[t] = 1 /\ events = 2

\* C5: no operation lowers c.errors or c.events, and the errors and events
\* values a scrape emits are never below those of the scrape before it.
C5_CountersMonotonic ==
    [][ /\ errors' >= errors
        /\ events' >= events
        /\ prevErrs' >= prevErrs
        /\ prevEvs' >= prevEvs ]_vars

C5_Witness ==
    /\ prevErrs = 1 /\ errors = 2
    /\ prevEvs = 1 /\ events = 2
    /\ described > 0
    /\ \E t \in Procs : pc[t] = "done"

\* the identifiers Describe has to send for the present session state
Identifiers ==
    IF session = NoSession
    THEN {<<"vmwareguest_", "isguest">>}
    ELSE {<<"vmwareguest_", "isguest">>, <<"vmwareguest_", "events">>,
          <<"vmwareguest_", "collecterrors">>}
         \cup {prometheus_name(metrics[k]) : k \in 1..NumMetrics}

\* C6: every Describe call leaves the session and both counters as they
\* were and sends the same identifiers as the call before it: isguest alone
\* without a session, and with one also every table identifier plus events
\* and collecterrors.
C6_DescribeIdempotent ==
    [][ described' # described =>
          /\ session' = session /\ errors' = errors /\ events' = events
          /\ {descOut'[k] : k \in 1..Len(descOut')} = Identifiers
          /\ Len(descOut') = Cardinality(Identifiers)
          /\ (session = Session =>
                 /\ Len(descOut') = 32
                 /\ \E k \in 1..Len(descOut') :
                       descOut'[k] = <<"vmwareguest_", "HostMemUsed", "_", "bytes">>
                 /\ \E k \in 1..Len(descOut') :
                       descOut'[k] = <<"vmwareguest_", "CPUShares">>)
          /\ (described > 0 => descOut' = descOut) ]_vars

C6_Witness ==
    /\ described = 2
    /\ session = Session
    /\ Len(descOut) = 32
    /\ errors = 1 /\ events = 1
    /\ \E t \in Procs : pc[t] = "loop"

\* the multiplier and value type the unit of a table entry stands for
UnitMultiplier(u) ==
    CASE u = "bytes" -> [m |-> 1, e2 |-> 20, e5 |-> 0]
      [] u = "hertz" -> [m |-> 1, e2 |-> 20, e5 |-> 0]
      [] u = "seconds" -> [m |-> 1, e2 |-> -3, e5 |-> -3]
      [] OTHER -> [m |-> 1, e2 |-> 0, e5 |-> 0]

UnitValueType(u) == IF u = "seconds" THEN "CounterValue" ELSE "GaugeValue"

\* C7: every table sample carries the raw reading times the multiplier of
\* its unit (1048576 for bytes and hertz, 1 for unitless, 0.001 for
\* seconds) and the value type of its unit (counter for seconds, gauge
\* otherwise); a raw 2048 yields 2^31 in bytes and 2.048 in seconds.
C7_UnitConversion ==
    \A t \in Procs : \A p \in 1..Len(ch[t]) : \A j \in 1..NumMetrics :
        ch[t][p].desc = descs[j] =>
            LET u == metrics[j].unit
                v == ch[t][p].value
            IN  /\ v = F64Mul(ToF64(info), UnitMultiplier(u))
                /\ ch[t][p].ValueType = UnitValueType(u)
                /\ (info = 2048 /\ u \in {"bytes", "hertz"})
                      => v = [m |-> 1, e2 |-> 31, e5 |-> 0]
                /\ (info = 2048 /\ u = "seconds")
                      => v = [m |-> 1, e2 |-> 8, e5 |-> -3]
                /\ (info = 2048 /\ u = "")
                      => v = [m |-> 1, e2 |-> 11, e5 |-> 0]
                /\ (info = 3 /\ u = "seconds")
                      => v = [m |-> 3, e2 |-> -3, e5 |-> -3]
                /\ info = 0 => v = Zero

C7_Witness ==
    \E t \in Procs : \E p, q \in 1..Len(ch[t]) :
        /\ info = 2048
        /\ ch[t][p] = [desc |-> <<"vmwareguest_", "HostMemUsed", "_", "bytes">>,
                       ValueType |-> "GaugeValue",
                       value |-> [m |-> 1, e2 |-> 31, e5 |-> 0]]
        /\ ch[t][q] = [desc |-> <<"vmwareguest_", "CPUUsed", "_", "seconds">>,
                       ValueType |-> "CounterValue",
                       value |-> [m |-> 1, e2 |-> 8, e5 |-> -3]]

\* the table index of a descriptor, 0 for isguest, events and collecterrors
TableIndex(d) ==
    IF \E j \in 1..NumMetrics : descs[j] = d
    THEN CHOOSE j \in 1..NumMetrics : descs[j] = d
    ELSE 0

\* C8: inside one Collect with a session the isguest gauge is sent first,
\* RefreshInfo is called next, the getters are called one at a time in
\* table order with each sample sent right after its own getter and before
\* the next one is called, and events then collecterrors are sent last.
C8_ScrapeOrder ==
    \A t \in Procs :
        (session = Session /\ pc[t] # "idle") =>
            LET c == ch[t]
                n == Len(c)
                g == calls[t]
            IN  /\ n >= 1 /\ c[1].desc = isGuestDesc
                /\ g # <<>> => g[1] = [call |-> "RefreshInfo", at |-> 1]
                /\ \A q \in 2..Len(g) :
                      /\ g[q].call = metrics[q - 1].getter.fn
                      /\ g[q].at >= g[q - 1].at
                /\ \A p \in 2..n :
                      LET j == TableIndex(c[p].desc)
                      IN  j > 0 =>
                            /\ Len(g) >= j + 1
                            /\ g[j + 1].at = p - 1
                            /\ \A r \in 2..(p - 1) :
                                  /\ TableIndex(c[r].desc) > 0
                                  /\ TableIndex(c[r].desc) < j
                /\ \A p \in 1..n :
                      c[p].desc = eventsDesc =>
                          /\ p > 1
                          /\ Len(g) = NumMetrics + 1
                          /\ p = n \/ (p = n - 1 /\ c[n].desc = collecterrsDesc)
                /\ \A p \in 1..n :
                      c[p].desc = collecterrsDesc =>
                          /\ p = n /\ p > 2
                          /\ c[p - 1].desc = eventsDesc
                          /\ pc[t] = "done"

C8_Witness ==
    \E t \in Procs :
        /\ session = Session /\ pc[t] = "done"
        /\ Len(calls[t]) = NumMetrics + 1
        /\ Len(ch[t]) = NumMetrics + 3
        /\ ch[t][2].desc = descs[1]
        /\ ch[t][NumMetrics + 1].desc = descs[NumMetrics]

\* no Collect is in flight
Quiescent == \A t \in Procs : pc[t] \in {"idle", "done"}

\* C9: when Collect calls overlap, increments of c.errors and c.events can
\* only be lost, never invented: each counter stays at or below the number
\* of getter failures (of "state changed" refreshes) that occurred, and
\* falls short of it only if two Collect calls were in flight together.
C9_ConcurrentLostUpdate ==
    /\ errors <= totalFails
    /\ events <= totalEvents
    /\ (Quiescent /\ ~overlap) => (errors = totalFails /\ events = totalEvents)

C9_Witness ==
    /\ Quiescent
    /\ overlap
    /\ totalFails = 2 /\ errors = 1
    /\ totalEvents = 2 /\ events = 1

\* C10: with one scrape in flight at a time, the collecterrors value a
\* finished scrape emits is the number of getter failures so far and its
\* events value the number of "state changed" refreshes so far, this scrape
\* included; both counters are 0 before the first scrape.
C10_CumulativeCounters ==
    /\ scrapes = 0 => (errors = 0 /\ events = 0)
    /\ \A t \in Procs :
          (session = Session /\ pc[t] = "done") =>
              LET n == Len(ch[t])
              IN  /\ ch[t][n] = [desc |-> collecterrsDesc,
                                 ValueType |-> "CounterValue",
                                 value |-> ToF64(totalFails)]
                  /\ ch[t][n - 1] = [desc |-> eventsDesc,
                                     ValueType |-> "CounterValue",
                                     value |-> ToF64(totalEvents)]
                  /\ F64Int(ch[t][n].value) = totalFails
                  /\ F64Int(ch[t][n - 1].value) = totalEvents

C10_Witness ==
    \E t \in Procs :
        /\ session = Session /\ pc[t] = "done"
        /\ scrapes = 2
        /\ errs0[t] = 1 /\ totalFails = 2
        /\ evs0[t] = 1 /\ totalEvents = 2
        /\ F64Int(ch[t][Len(ch[t])].value) = 2

====
